---- MODULE Spec2Model ----
(***************************************************************************)
(* Model of src/extras/colors.rs: generate_palette() builds a 254-entry    *)
(* palette of packed RGB values in three phases (6x6x6 cube, grayscale     *)
(* ramp, literal extras); main() then prints it in three sections.         *)
(* Each loop iteration of the program is one step of the state machine.    *)
(***************************************************************************)
EXTENDS Integers, Sequences, FiniteSets

VARIABLES pc, palette, idx, ri, gi, bi, i, k, r_idx, g_idx, b_idx, m_idx, out

vars == <<pc, palette, idx, ri, gi, bi, i, k, r_idx, g_idx, b_idx, m_idx, out>>

(* ---------------- program constants ---------------- *)

\* [u32; 254]
PaletteLen == 254

\* width of the u32 palette entries
Width == 32

levels == <<0, 51, 102, 153, 204, 255>>

\* extras with one literal carrying a digit too many (0xFF6B6B6)
extrasWide ==
    << 267826870, 5164484, 4569041, 9883316, 16752762,
       14524637, 2142890, 7833753, 12357519, 15787660,
       15132410, 16773365, 3100495, 1644912 >>

\* extras with the first two literals exchanged
extrasSwapped ==
    << 5164484, 16739179, 4569041, 9883316, 16752762,
       14524637, 2142890, 7833753, 12357519, 15787660,
       15132410, 16773365, 3100495, 1644912 >>

extras ==
    << 16739179, 5164484, 4569041, 9883316, 16752762,
       14524637, 2142890, 7833753, 12357519, 15787660,
       15132410, 16773365, 3100495, 1644912 >>

\* for i in 1..=24
GrayLast == 24

\* for idx in 216..240
GrayStart == 216
GrayEnd == 240

\* for idx in 240..254, written inclusively (240..=254)
ExtrasEndInclusive == 254 + 1

\* for idx in 240..254
ExtrasStart == 240
ExtrasEnd == 254

(* ---------------- u32 arithmetic ---------------- *)

RECURSIVE BitOr(_, _)
BitOr(a, b) ==
    IF a = 0 THEN b
    ELSE IF b = 0 THEN a
    ELSE (IF a % 2 = 1 \/ b % 2 = 1 THEN 1 ELSE 0) + 2 * BitOr(a \div 2, b \div 2)

RECURSIVE BitAnd(_, _)
BitAnd(a, b) ==
    IF a = 0 \/ b = 0 THEN 0
    ELSE (IF a % 2 = 1 /\ b % 2 = 1 THEN 1 ELSE 0) + 2 * BitAnd(a \div 2, b \div 2)

\* x << n on u32: the bits shifted past the width are lost
Shl(x, n) == (x % (2 ^ (Width - n))) * (2 ^ n)

\* x >> n
Shr(x, n) == x \div (2 ^ n)

\* (b << 16) | (g << 8) | r : channels packed in the reverse order
PackBGR(r, g, b) == BitOr(BitOr(Shl(b, 16), Shl(g, 8)), r)

\* (r << 16) | (g << 8) | b
Pack(r, g, b) == BitOr(BitOr(Shl(r, 16), Shl(g, 8)), b)

\* (color >> 16) & 0xFF, (color >> 8) & 0xFF, color & 0xFF
ChanR(color) == BitAnd(Shr(color, 16), 255)
ChanG(color) == BitAnd(Shr(color, 8), 255)
ChanB(color) == BitAnd(color, 255)

\* (i * 256) / 25
GrayVWrong(n) == (n * 256) \div 25

\* let v = (i * 255) / 25
GrayV(n) == (n * 255) \div 25

\* the skip test with the 0x33 comparison left out
KeepGrayNo33(v) ==
    v # 0 /\ v # 102 /\ v # 153 /\ v # 204 /\ v # 255

\* v != 0x00 && v != 0x33 && v != 0x66 && v != 0x99 && v != 0xCC && v != 0xFF
KeepGray(v) ==
    v # 0 /\ v # 51 /\ v # 102 /\ v # 153 /\ v # 204 /\ v # 255

\* g_idx and b_idx exchanged
CubeIndexSwapped(r, g, b) == r * 36 + b * 6 + g

\* let idx = r_idx * 36 + g_idx * 6 + b_idx
CubeIndex(r, g, b) == r * 36 + g * 6 + b

\* the bounds check of an indexing expression palette[j]
InRange(j) == j >= 0 /\ j < PaletteLen

(* ---------------- output tokens ---------------- *)

\* print!("\x1b[48;2;{};{};{}m   \x1b[0m", r, g, b)
Block(color) == <<"block", ChanR(color), ChanG(color), ChanB(color)>>

\* println!()
NewLine == <<"nl", 0, 0, 0>>

Title == <<"title", PaletteLen, 0, 0>>
CubeHeader == <<"cube_hdr", 216, 0, 0>>
RedHeader(n) == <<"red_hdr", n, 6, 0>>
GrayHeader == <<"gray_hdr", 216, 216 + 24 - 1, 0>>
ExtrasHeader == <<"extras_hdr", 240, 253, 0>>

(* ---------------- generate_palette ---------------- *)

Init ==
    /\ pc = "cube"
    /\ palette = [j \in 0 .. (PaletteLen - 1) |-> 0]
    /\ idx = 0
    /\ ri = 0 /\ gi = 0 /\ bi = 0
    /\ i = 0 /\ k = 0
    /\ r_idx = 0 /\ g_idx = 0 /\ b_idx = 0 /\ m_idx = 0
    /\ out = << >>

\* one iteration of the innermost cube loop
CubeStep ==
    /\ pc = "cube"
    /\ IF InRange(idx)
       THEN /\ palette' = [palette EXCEPT
                   ![idx] = Pack(levels[ri + 1], levels[gi + 1], levels[bi + 1])]
            /\ idx' = idx + 1
            /\ bi' = IF bi + 1 < Len(levels) THEN bi + 1 ELSE 0
            /\ gi' = IF bi + 1 < Len(levels) THEN gi
                     ELSE IF gi + 1 < Len(levels) THEN gi + 1 ELSE 0
            /\ ri' = IF bi + 1 < Len(levels) \/ gi + 1 < Len(levels) THEN ri ELSE ri + 1
            /\ IF bi + 1 = Len(levels) /\ gi + 1 = Len(levels) /\ ri + 1 = Len(levels)
               THEN pc' = "gray" /\ i' = 1
               ELSE pc' = "cube" /\ i' = i
       ELSE /\ pc' = "panic"
            /\ UNCHANGED <<palette, idx, ri, gi, bi, i>>
    /\ UNCHANGED <<k, r_idx, g_idx, b_idx, m_idx, out>>

\* one iteration of for i in 1..=24
GrayStep ==
    /\ pc = "gray"
    /\ LET v == GrayV(i) IN
       IF KeepGray(v)
       THEN IF InRange(idx)
            THEN /\ palette' = [palette EXCEPT ![idx] = Pack(v, v, v)]
                 /\ idx' = idx + 1
                 /\ i' = i + 1
                 /\ IF i = GrayLast THEN pc' = "extras" /\ k' = 1
                                    ELSE pc' = "gray" /\ k' = k
            ELSE /\ pc' = "panic"
                 /\ UNCHANGED <<palette, idx, i, k>>
       ELSE /\ UNCHANGED <<palette, idx>>
            /\ i' = i + 1
            /\ IF i = GrayLast THEN pc' = "extras" /\ k' = 1
                               ELSE pc' = "gray" /\ k' = k
    /\ UNCHANGED <<ri, gi, bi, r_idx, g_idx, b_idx, m_idx, out>>

\* one iteration of for &color in &extras
ExtrasStep ==
    /\ pc = "extras"
    /\ IF idx < 254
       THEN /\ palette' = [palette EXCEPT ![idx] = extras[k]]
            /\ idx' = idx + 1
       ELSE UNCHANGED <<palette, idx>>
    /\ k' = k + 1
    /\ pc' = IF k = Len(extras) THEN "title" ELSE "extras"
    /\ UNCHANGED <<ri, gi, bi, i, r_idx, g_idx, b_idx, m_idx, out>>

(* ---------------- main ---------------- *)

\* the title line and the "RGB Cube" section header
PrintTitle ==
    /\ pc = "title"
    /\ out' = out \o <<Title, CubeHeader>>
    /\ r_idx' = 0
    /\ pc' = "red_hdr"
    /\ UNCHANGED <<palette, idx, ri, gi, bi, i, k, g_idx, b_idx, m_idx>>

\* println!("\nRed level {}/6:", r_idx + 1)
PrintRedHeader ==
    /\ pc = "red_hdr"
    /\ out' = Append(out, RedHeader(r_idx + 1))
    /\ g_idx' = 0 /\ b_idx' = 0
    /\ pc' = "cube_block"
    /\ UNCHANGED <<palette, idx, ri, gi, bi, i, k, r_idx, m_idx>>

\* one iteration of for b_idx in 0..6
PrintCubeBlock ==
    /\ pc = "cube_block"
    /\ LET j == CubeIndex(r_idx, g_idx, b_idx) IN
       IF InRange(j)
       THEN /\ out' = Append(out, Block(palette[j]))
            /\ m_idx' = j
            /\ b_idx' = b_idx + 1
            /\ pc' = IF b_idx + 1 = 6 THEN "cube_nl" ELSE "cube_block"
       ELSE /\ pc' = "panic"
            /\ UNCHANGED <<out, m_idx, b_idx>>
    /\ UNCHANGED <<palette, idx, ri, gi, bi, i, k, r_idx, g_idx>>

\* println!() closing a row, then the next g_idx or r_idx
PrintCubeNewLine ==
    /\ pc = "cube_nl"
    /\ out' = Append(out, NewLine)
    /\ b_idx' = 0
    /\ g_idx' = IF g_idx + 1 = 6 THEN 0 ELSE g_idx + 1
    /\ r_idx' = IF g_idx + 1 = 6 THEN r_idx + 1 ELSE r_idx
    /\ pc' = IF g_idx + 1 < 6 THEN "cube_block"
             ELSE IF r_idx + 1 < 6 THEN "red_hdr" ELSE "gray_hdr"
    /\ UNCHANGED <<palette, idx, ri, gi, bi, i, k, m_idx>>

\* println!("\nGrayscale ({}-{}):", 216, 216 + 24 - 1)
PrintGrayHeader ==
    /\ pc = "gray_hdr"
    /\ out' = Append(out, GrayHeader)
    /\ m_idx' = GrayStart
    /\ pc' = "gray_block"
    /\ UNCHANGED <<palette, idx, ri, gi, bi, i, k, r_idx, g_idx, b_idx>>

\* one iteration of for idx in 216..240
PrintGrayBlock ==
    /\ pc = "gray_block"
    /\ IF InRange(m_idx)
       THEN /\ out' = Append(out, Block(palette[m_idx]))
            /\ m_idx' = m_idx + 1
            /\ pc' = IF m_idx + 1 = GrayEnd THEN "gray_nl" ELSE "gray_block"
       ELSE /\ pc' = "panic"
            /\ UNCHANGED <<out, m_idx>>
    /\ UNCHANGED <<palette, idx, ri, gi, bi, i, k, r_idx, g_idx, b_idx>>

\* println!() closing the grayscale row
PrintGrayNewLine ==
    /\ pc = "gray_nl"
    /\ out' = Append(out, NewLine)
    /\ pc' = "extras_hdr"
    /\ UNCHANGED <<palette, idx, ri, gi, bi, i, k, r_idx, g_idx, b_idx, m_idx>>

\* println!("\nExtra colors (240-253):")
PrintExtrasHeader ==
    /\ pc = "extras_hdr"
    /\ out' = Append(out, ExtrasHeader)
    /\ m_idx' = ExtrasStart
    /\ pc' = "extras_block"
    /\ UNCHANGED <<palette, idx, ri, gi, bi, i, k, r_idx, g_idx, b_idx>>

\* one iteration of for idx in 240..254, with its line break every 7th block
PrintExtrasBlock ==
    /\ pc = "extras_block"
    /\ IF InRange(m_idx)
       THEN /\ out' = IF (m_idx - 240 + 1) % 7 = 0
                      THEN out \o <<Block(palette[m_idx]), NewLine>>
                      ELSE Append(out, Block(palette[m_idx]))
            /\ m_idx' = m_idx + 1
            /\ pc' = IF m_idx + 1 = ExtrasEnd THEN "final_nl" ELSE "extras_block"
       ELSE /\ pc' = "panic"
            /\ UNCHANGED <<out, m_idx>>
    /\ UNCHANGED <<palette, idx, ri, gi, bi, i, k, r_idx, g_idx, b_idx>>

\* the last println!() of main
PrintFinalNewLine ==
    /\ pc = "final_nl"
    /\ out' = Append(out, NewLine)
    /\ pc' = "done"
    /\ UNCHANGED <<palette, idx, ri, gi, bi, i, k, r_idx, g_idx, b_idx, m_idx>>

Next ==
    \/ CubeStep
    \/ GrayStep
    \/ ExtrasStep
    \/ PrintTitle
    \/ PrintRedHeader
    \/ PrintCubeBlock
    \/ PrintCubeNewLine
    \/ PrintGrayHeader
    \/ PrintGrayBlock
    \/ PrintGrayNewLine
    \/ PrintExtrasHeader
    \/ PrintExtrasBlock
    \/ PrintFinalNewLine

Spec == Init /\ [][Next]_vars

(* ---------------- properties ---------------- *)

\* generate_palette has returned and main is running or has finished
Returned == pc \in {"title", "red_hdr", "cube_block", "cube_nl", "gray_hdr",
                    "gray_block", "gray_nl", "extras_hdr", "extras_block",
                    "final_nl", "done"}

\* the six cube levels and the 14 literal extras as the specification lists them
SpecLevels == <<0, 51, 102, 153, 204, 255>>
SpecLevelSet == {0, 51, 102, 153, 204, 255}
SpecExtras ==
    << 16739179, 5164484, 4569041, 9883316, 16752762,
       14524637, 2142890, 7833753, 12357519, 15787660,
       15132410, 16773365, 3100495, 1644912 >>

\* floor(n*255/25), whether it is appended, and how many are appended before n
SpecV(n) == (n * 255) \div 25
SpecKept(n) == SpecV(n) \notin SpecLevelSet
SpecKeptBefore(n) == Cardinality({m \in 1 .. (n - 1) : SpecKept(m)})
SpecGray(v) == v * 65536 + v * 256 + v

\* index right after the last appended grayscale entry
SpecGrayStop == 216 + SpecKeptBefore(25)

\* C1: when generate_palette returns, the fill index idx equals 254.
C1_FillIndexIs254 == Returned => idx = 254

\* C2: indices 0..215 hold the 6x6x6 cube in row-major (r, g, b) order:
\* palette[r*36 + g*6 + b] = (L[r] << 16) | (L[g] << 8) | L[b], every
\* combination once, palette[0] = 0x000000 and palette[215] = 0xFFFFFF.
C2_CubeRowMajor ==
    /\ \A r \in 0 .. 5 : \A g \in 0 .. 5 : \A b \in 0 .. 5 :
          (r * 36 + g * 6 + b < idx) =>
             palette[r * 36 + g * 6 + b] =
                SpecLevels[r + 1] * 65536 + SpecLevels[g + 1] * 256 + SpecLevels[b + 1]
    /\ pc # "cube" =>
          /\ idx >= 216
          /\ Cardinality({palette[j] : j \in 0 .. 215}) = 216
          /\ palette[0] = 0
          /\ palette[215] = 16777215

C2_Witness == pc = "gray" /\ i = 1 /\ idx = 216 /\ palette[43] = 3355443

C4_ExtrasAfterGrays ==
    Returned =>
       /\ idx = SpecGrayStop + 14
       /\ \A n \in 1 .. 14 : palette[SpecGrayStop + n - 1] = SpecExtras[n]
       /\ \A j \in (SpecGrayStop + 14) .. 253 : palette[j] = 0

C4_Witness ==
    pc = "title" /\ palette[236] = 16739179 /\ palette[249] = 1644912 /\ palette[250] = 0

\* position in out of the section headers and of the last line break
PosGrayHeader == 2 + 6 * 43 + 1
PosExtrasHeader == PosGrayHeader + 24 + 2
PosEnd == PosExtrasHeader + 14 + 3

\* a colored block as the terminal shows it
SpecBlock(c) == <<"block", c \div 65536, (c \div 256) % 256, c % 256>>

\* C5: the Grayscale section is one row of 24 blocks for indices 216..239, and
\* each of those indices holds an entry appended by the grayscale phase
\* (r = g = b); the grayscale phase appends exactly 24 entries.
C5_GrayscaleRowIsGray ==
    /\ (pc = "extras" /\ k = 1) => idx = 216 + 24
    /\ pc = "done" =>
          /\ out[PosGrayHeader] = <<"gray_hdr", 216, 239, 0>>
          /\ \A j \in 216 .. 239 :
                /\ out[PosGrayHeader + 1 + (j - 216)] = SpecBlock(palette[j])
                /\ palette[j] \div 65536 = palette[j] % 256
                /\ (palette[j] \div 256) % 256 = palette[j] % 256
          /\ out[PosGrayHeader + 25] = <<"nl", 0, 0, 0>>

\* C6: the Extras section shows indices 240..253 as 2 rows of 7 blocks with a
\* line break after the 7th and the 14th block, and the k-th block (k = 0..13)
\* shows extras[k].
C6_ExtrasRowsShowExtras ==
    pc = "done" =>
       /\ out[PosExtrasHeader] = <<"extras_hdr", 240, 253, 0>>
       /\ \A n \in 0 .. 6 :
             /\ out[PosExtrasHeader + 1 + n] = SpecBlock(SpecExtras[n + 1])
             /\ out[PosExtrasHeader + 9 + n] = SpecBlock(SpecExtras[n + 8])
       /\ out[PosExtrasHeader + 8] = <<"nl", 0, 0, 0>>
       /\ out[PosExtrasHeader + 16] = <<"nl", 0, 0, 0>>

\* the cube section has been printed in full
CubePrinted == pc \in {"gray_hdr", "gray_block", "gray_nl", "extras_hdr",
                       "extras_block", "final_nl", "done"}

\* C7: the RGB Cube section is 6 headers 'Red level k/6', k = 1..6 in order,
\* each followed by exactly 6 rows of 6 blocks with a line break after each
\* row; the block of header k, row g, column b shows palette[(k-1)*36+g*6+b].
C7_CubeSectionLayout ==
    CubePrinted =>
       /\ Len(out) >= PosGrayHeader - 1
       /\ out[2] = <<"cube_hdr", 216, 0, 0>>
       /\ \A p \in 1 .. (6 * 43) :
             LET kk == (p - 1) \div 43
                 q == (p - 1) % 43
                 g == (q - 1) \div 7
                 b == (q - 1) % 7
             IN out[2 + p] =
                   IF q = 0 THEN <<"red_hdr", kk + 1, 6, 0>>
                   ELSE IF b = 6 THEN <<"nl", 0, 0, 0>>
                   ELSE SpecBlock(palette[kk * 36 + g * 6 + b])
       /\ (Len(out) >= PosGrayHeader) => out[PosGrayHeader][1] = "gray_hdr"

C7_Witness == pc = "gray_hdr" /\ Len(out) = 260 /\ r_idx = 6

\* C8: every palette entry c survives the round trip through
\* r = (c >> 16) & 0xFF, g = (c >> 8) & 0xFF, b = c & 0xFF and
\* (r << 16) | (g << 8) | b, and lies in [0, 0xFFFFFF].
C8_RoundTrip ==
    \A j \in 0 .. 253 :
       /\ Pack(ChanR(palette[j]), ChanG(palette[j]), ChanB(palette[j])) = palette[j]
       /\ palette[j] >= 0
       /\ palette[j] <= 16777215

C8_Witness == pc = "done" /\ palette[216] = 657930 /\ palette[249] = 1644912

\* C9: no array access is out of range: idx is in 0..253 at every write and
\* never exceeds 254, every index main reads is in 0..253, and the program
\* does not panic.
C9_NoIndexPanic ==
    /\ pc # "panic"
    /\ idx >= 0 /\ idx <= 254
    /\ pc = "cube" => idx <= 253
    /\ (pc = "gray" /\ SpecKept(SpecV(i))) => idx <= 253
    /\ pc = "cube_block" => (r_idx * 36 + g_idx * 6 + b_idx) \in 0 .. 253
    /\ pc = "gray_block" => m_idx \in 216 .. 239
    /\ pc = "extras_block" => m_idx \in 240 .. 253

C9_Witness == pc = "done" /\ Len(out) = PosEnd /\ m_idx = 254

\* C10: the entries generate_palette has written (indices 0 .. idx-1) are
\* pairwise distinct.
C10_WrittenDistinct ==
    Cardinality({palette[j] : j \in 0 .. (idx - 1)}) = idx

C10_Witness == pc = "title" /\ idx = 250 /\ k = 15

====
